---- MODULE Spec2Model ----
(***************************************************************************)
(* A model of engines/engine.py of OIMNetPlus: the training-step driver    *)
(* train_one_epoch and the evaluation driver evaluate_performance.         *)
(*                                                                         *)
(* The collaborators the file calls (the model, the optimizer, the         *)
(* gradient scaler, reduce_dict, the loaders, the scoring functions) are   *)
(* the environment: each call is recorded as an event and the value it     *)
(* returns is drawn from a small set.                                      *)
(***************************************************************************)
EXTENDS Integers, Sequences, FiniteSets, TLC

(***************************************************************************)
(* Bounds of the model.                                                    *)
(***************************************************************************)
\* the longest training data loader, in batches
MaxBatches == 2
\* images of the gallery dataset
NumGallery == 2
\* images of the query dataset
NumQuery == 2
\* calls of evaluate_performance sharing one outsys_dir
MaxRuns == 2

VARIABLES
    \* ---- train_one_epoch
    pc_train,           \* the statement train_one_epoch is at
    cfg,                \* [CLIP_GRADIENTS |-> Int]
    epoch,              \* the epoch argument
    data_loader,        \* the batches of the loader, <<1, ..., n>>
    tfboard,            \* TRUE when a tensorboard writer was passed
    i,                  \* enumerate's index of the current batch
    loss_dict,          \* model(images, targets) of this rank
    losses,             \* sum(loss_dict.values())
    loss_dict_reduced,  \* reduce_dict(loss_dict)
    loss_value,         \* losses_reduced.item()
    warmup_scheduler,   \* NoScheduler or [warmup_iters, warmup_factor, steps]
    metric_logger,      \* [loss |-> number of updates, lr |-> number of updates]
    os_txt,             \* the lines write_text appended to os.txt
    tfboard_scalars,    \* the <<key, iter>> pairs written by add_scalars
    exit_status,        \* -1 while the process runs, else the status of sys.exit
    trace,              \* the calls made so far, [ev |-> name, b |-> batch index]
    \* ---- evaluate_performance
    pc_eval,
    use_gt, use_cache, use_cbgm,
    model,              \* the weights of the model passed in
    batch_size,         \* the batch size of the two test loaders
    dataset_name,       \* gallery_loader.dataset.name
    gallery_dets, gallery_feats, query_dets, query_feats, query_box_feats,
    targets,            \* the targets of the current batch, after the model call
    outputs,            \* the last detection outputs
    embeddings,         \* the last list of embeddings
    gt_box,             \* the box the consistency check compared
    gi, qi,             \* batches of the gallery / query loader consumed in the current pass
    cache_file,         \* NoFile or the dict saved in eval_cache.pth
    det_calls,          \* the calls of eval_detection in this run
    search_calls,       \* the calls of eval_search_* in this run
    ret,                \* the value eval_search_func returned
    returned,           \* the value evaluate_performance returned
    etrace,             \* the calls made in this run
    runs,               \* the number of calls of evaluate_performance so far
    \* ---- history
    gallery_src,        \* who produced gallery_dets: "detector", "gt" or "none"
    cache_src,          \* who produced the gallery_dets of cache_file
    cache_at_start,     \* cache_file when the current run started
    last_completed      \* the artifacts of the last completed use_cache=False run

train_vars == <<pc_train, cfg, epoch, data_loader, tfboard, i, loss_dict, losses,
                loss_dict_reduced, loss_value, warmup_scheduler, metric_logger,
                os_txt, tfboard_scalars, exit_status, trace>>

eval_vars == <<pc_eval, use_gt, use_cache, use_cbgm, model, batch_size, dataset_name,
               gallery_dets, gallery_feats, query_dets, query_feats, query_box_feats,
               targets, outputs, embeddings, gt_box, gi, qi, cache_file, det_calls,
               search_calls, ret, returned, etrace, runs,
               gallery_src, cache_src, cache_at_start, last_completed>>

vars == <<train_vars, eval_vars>>

(***************************************************************************)
(* Floating-point loss values: a finite number, NaN, +inf or -inf.         *)
(***************************************************************************)
Fin(v) == [kind |-> "fin", val |-> v]
NaN == [kind |-> "nan", val |-> 0]
PInf == [kind |-> "pinf", val |-> 0]
NInf == [kind |-> "ninf", val |-> 0]

\* the values a single loss term takes in the model
LossValues == {Fin(1), NaN, PInf, NInf}

\* the keys of the loss dict
LossKeys == {"loss_det", "loss_reid"}

LossDicts == [LossKeys -> LossValues]

\* IEEE addition
FAdd(a, b) ==
    IF a.kind = "nan" \/ b.kind = "nan" THEN NaN
    ELSE IF a.kind = "fin" /\ b.kind = "fin" THEN Fin(a.val + b.val)
    ELSE IF a.kind = "fin" THEN b
    ELSE IF b.kind = "fin" THEN a
    ELSE IF a.kind = b.kind THEN a
    ELSE NaN

\* sum(loss for loss in d.values()), starting from the integer 0
SumValues(d) == FAdd(FAdd(Fin(0), d["loss_det"]), d["loss_reid"])

\* math.isfinite
IsFinite(x) == x.kind = "fin"


(***************************************************************************)
(* train_one_epoch                                                         *)
(***************************************************************************)
\* the values of cfg.SOLVER.CLIP_GRADIENTS the model runs with
ClipValues == {-1, 0, 10}

\* the values of the epoch argument the model runs with
Epochs == {0, 1}

ZeroDict == [k \in LossKeys |-> Fin(0)]

NoScheduler == [created |-> FALSE, warmup_iters |-> 0,
                warmup_factor |-> [num |-> 0, den |-> 1], steps |-> 0]

\* the event of a call, made while batch b is the current one (-1: before the loop)
Ev(name, b) == [ev |-> name, b |-> b]

Emit(names) == trace' = trace \o [k \in 1..Len(names) |-> Ev(names[k], i)]

TrainInit ==
    /\ pc_train = "idle"
    /\ cfg = [CLIP_GRADIENTS |-> 0]
    /\ epoch = 0
    /\ data_loader = <<>>
    /\ tfboard = FALSE
    /\ i = -1
    /\ loss_dict = ZeroDict
    /\ losses = Fin(0)
    /\ loss_dict_reduced = ZeroDict
    /\ loss_value = Fin(0)
    /\ warmup_scheduler = NoScheduler
    /\ metric_logger = [loss |-> 0, lr |-> 0]
    /\ os_txt = <<>>
    /\ tfboard_scalars = <<>>
    /\ exit_status = -1
    /\ trace = <<>>

WarmupEpoch_Always(e) == TRUE

\* "if epoch == 0", at the creation and at the step of the scheduler
WarmupEpoch(e) == e = 0

\* warmup_lr_scheduler(optimizer, len(data_loader) - 1, 1.0 / 1000)
NewWarmupScheduler(n) ==
    [created |-> TRUE, warmup_iters |-> n - 1,
     warmup_factor |-> [num |-> 1, den |-> 1000], steps |-> 0]

\* the call, up to the loop: model.train(), the logger, the epoch line, the scheduler
TrainStart ==
    /\ pc_train = "idle"
    /\ \E c \in ClipValues, e \in Epochs, n \in 0..MaxBatches, tb \in BOOLEAN :
        /\ cfg' = [CLIP_GRADIENTS |-> c]
        /\ epoch' = e
        /\ data_loader' = [k \in 1..n |-> k]
        /\ tfboard' = tb
        /\ warmup_scheduler' = IF WarmupEpoch(e) THEN NewWarmupScheduler(n)
                               ELSE NoScheduler
        /\ trace' = <<Ev("model_train", -1), Ev("write_text", -1)>>
                     \o (IF WarmupEpoch(e) THEN <<Ev("warmup_lr_scheduler", -1)>>
                         ELSE <<>>)
    /\ os_txt' = Append(os_txt, "Epoch")
    /\ pc_train' = "loop"
    /\ UNCHANGED <<i, loss_dict, losses, loss_dict_reduced, loss_value,
                   metric_logger, tfboard_scalars, exit_status>>

\* the loader yields the next batch
NextBatch ==
    /\ pc_train = "loop"
    /\ i + 1 < Len(data_loader)
    /\ i' = i + 1
    /\ pc_train' = "to_device"
    /\ UNCHANGED <<cfg, epoch, data_loader, tfboard, loss_dict, losses,
                   loss_dict_reduced, loss_value, warmup_scheduler, metric_logger,
                   os_txt, tfboard_scalars, exit_status, trace>>

\* the loader is exhausted: train_one_epoch returns
EpochEnd ==
    /\ pc_train = "loop"
    /\ i + 1 >= Len(data_loader)
    /\ pc_train' = "done"
    /\ UNCHANGED <<cfg, epoch, data_loader, tfboard, i, loss_dict, losses,
                   loss_dict_reduced, loss_value, warmup_scheduler, metric_logger,
                   os_txt, tfboard_scalars, exit_status, trace>>

\* a statement that only makes a call
Step(from, names, to) ==
    /\ pc_train = from
    /\ Emit(names)
    /\ pc_train' = to
    /\ UNCHANGED <<cfg, epoch, data_loader, tfboard, i, loss_dict, losses,
                   loss_dict_reduced, loss_value, warmup_scheduler, metric_logger,
                   os_txt, tfboard_scalars, exit_status>>

ToDevice == Step("to_device", <<"to_device">>, "zero_grad")

ZeroGrad == Step("zero_grad", <<"zero_grad">>, "forward")

\* loss_dict = model(images, targets); losses = sum(...)
Forward ==
    /\ pc_train = "forward"
    /\ \E d \in LossDicts :
        /\ loss_dict' = d
        /\ losses' = SumValues(d)
    /\ Emit(<<"forward">>)
    /\ pc_train' = "reduce"
    /\ UNCHANGED <<cfg, epoch, data_loader, tfboard, i, loss_dict_reduced, loss_value,
                   warmup_scheduler, metric_logger, os_txt, tfboard_scalars, exit_status>>

\* loss_dict_reduced = reduce_dict(loss_dict); loss_value = sum(...).item()
ReduceLoss ==
    /\ pc_train = "reduce"
    /\ \E r \in LossDicts :
        /\ loss_dict_reduced' = r
        /\ loss_value' = SumValues(r)
    /\ Emit(<<"reduce_dict">>)
    /\ pc_train' = "check"
    /\ UNCHANGED <<cfg, epoch, data_loader, tfboard, i, loss_dict, losses,
                   warmup_scheduler, metric_logger, os_txt, tfboard_scalars, exit_status>>

CheckLoss_NoExit ==
    /\ pc_train = "check"
    /\ IF ~IsFinite(loss_value)
       THEN /\ os_txt' = os_txt \o <<"Loss is", "loss_dict_reduced">>
            /\ Emit(<<"isfinite", "write_text", "write_text">>)
       ELSE /\ os_txt' = os_txt
            /\ Emit(<<"isfinite">>)
    /\ pc_train' = "backward"
    /\ UNCHANGED <<cfg, epoch, data_loader, tfboard, i, loss_dict, losses,
                   loss_dict_reduced, loss_value, warmup_scheduler, metric_logger,
                   tfboard_scalars, exit_status>>

\* "if not math.isfinite(loss_value)": log to os.txt and sys.exit(1)
CheckLoss ==
    /\ pc_train = "check"
    /\ IF ~IsFinite(loss_value)
       THEN /\ os_txt' = os_txt \o <<"Loss is", "loss_dict_reduced">>
            /\ Emit(<<"isfinite", "write_text", "write_text", "sys_exit">>)
            /\ exit_status' = 1
            /\ pc_train' = "exited"
       ELSE /\ os_txt' = os_txt
            /\ Emit(<<"isfinite">>)
            /\ exit_status' = exit_status
            /\ pc_train' = "backward"
    /\ UNCHANGED <<cfg, epoch, data_loader, tfboard, i, loss_dict, losses,
                   loss_dict_reduced, loss_value, warmup_scheduler, metric_logger,
                   tfboard_scalars>>

ClipEnabled_NonNegative(c) == c.CLIP_GRADIENTS >= 0

\* "if cfg.SOLVER.CLIP_GRADIENTS > 0"
ClipEnabled(c) == c.CLIP_GRADIENTS > 0

\* scaler.scale(losses).backward()
Backward ==
    Step("backward", <<"backward">>, IF ClipEnabled(cfg) THEN "unscale" ELSE "scaler_step")

\* scaler.unscale_(optimizer)
Unscale == Step("unscale", <<"unscale_">>, "clip")

\* clip_grad_norm_(model.parameters(), cfg.SOLVER.CLIP_GRADIENTS)
ClipGradNorm == Step("clip", <<"clip_grad_norm_">>, "scaler_step")

ScalerStep_Twice == Step("scaler_step", <<"scaler_step", "scaler_step">>, "scaler_update")

\* scaler.step(optimizer)
ScalerStep == Step("scaler_step", <<"scaler_step">>, "scaler_update")

\* scaler.update()
ScalerUpdate ==
    Step("scaler_update", <<"scaler_update">>,
         IF WarmupEpoch(epoch) THEN "warmup" ELSE "metric_update")

\* warmup_scheduler.step()
WarmupStep ==
    /\ pc_train = "warmup"
    /\ warmup_scheduler' = [warmup_scheduler EXCEPT !.steps = @ + 1]
    /\ Emit(<<"warmup_step">>)
    /\ pc_train' = "metric_update"
    /\ UNCHANGED <<cfg, epoch, data_loader, tfboard, i, loss_dict, losses,
                   loss_dict_reduced, loss_value, metric_logger, os_txt,
                   tfboard_scalars, exit_status>>

\* metric_logger.update(loss=..., **loss_dict_reduced); metric_logger.update(lr=...)
MetricUpdate ==
    /\ pc_train = "metric_update"
    /\ metric_logger' = [loss |-> metric_logger.loss + 1, lr |-> metric_logger.lr + 1]
    /\ Emit(<<"metric_update_loss", "metric_update_lr">>)
    /\ pc_train' = IF tfboard THEN "tfboard" ELSE "loop"
    /\ UNCHANGED <<cfg, epoch, data_loader, tfboard, i, loss_dict, losses,
                   loss_dict_reduced, loss_value, warmup_scheduler, os_txt,
                   tfboard_scalars, exit_status>>

\* iter = epoch * len(data_loader) + i; one add_scalars per key of loss_dict_reduced
TfboardWrite ==
    /\ pc_train = "tfboard"
    /\ tfboard_scalars' = tfboard_scalars
            \o <<<<"loss_det", epoch * Len(data_loader) + i>>,
                 <<"loss_reid", epoch * Len(data_loader) + i>>>>
    /\ Emit(<<"add_scalars", "add_scalars">>)
    /\ pc_train' = "loop"
    /\ UNCHANGED <<cfg, epoch, data_loader, tfboard, i, loss_dict, losses,
                   loss_dict_reduced, loss_value, warmup_scheduler, metric_logger,
                   os_txt, exit_status>>

TrainNext ==
    \/ (TrainStart /\ UNCHANGED eval_vars)
    \/ (NextBatch /\ UNCHANGED eval_vars)
    \/ (EpochEnd /\ UNCHANGED eval_vars)
    \/ (ToDevice /\ UNCHANGED eval_vars)
    \/ (ZeroGrad /\ UNCHANGED eval_vars)
    \/ (Forward /\ UNCHANGED eval_vars)
    \/ (ReduceLoss /\ UNCHANGED eval_vars)
    \/ (CheckLoss /\ UNCHANGED eval_vars)
    \/ (Backward /\ UNCHANGED eval_vars)
    \/ (Unscale /\ UNCHANGED eval_vars)
    \/ (ClipGradNorm /\ UNCHANGED eval_vars)
    \/ (ScalerStep /\ UNCHANGED eval_vars)
    \/ (ScalerUpdate /\ UNCHANGED eval_vars)
    \/ (WarmupStep /\ UNCHANGED eval_vars)
    \/ (MetricUpdate /\ UNCHANGED eval_vars)
    \/ (TfboardWrite /\ UNCHANGED eval_vars)

(***************************************************************************)
(* evaluate_performance                                                    *)
(***************************************************************************)
\* a score or a label of 1, torch.ones, in thousandths
ScoreOne == 1000

\* the tolerance 0.001 of the consistency check, in thousandths (of a pixel)
Tolerance == 1

\* det_thresh = 0.01, in thousandths
DetThresh == 10

\* the weights the model passed in may have
Models == {1, 2}

\* the batch sizes the test loaders may have
BatchSizes == {1, 2}

\* the values gallery_loader.dataset.name takes in the model
DatasetNames == {"CUHK-SYSU", "PRW", "cuhk-sysu"}

\* the first box the model returns for a query image, minus nothing (0), moved
\* so that the differences sum to -5, or to 2 (in thousandths of a pixel)
Errs == {0, -5, 2}

\* the values a search evaluation function returns in the model
Rets == {"ret_a", "ret_b"}

\* the ground-truth boxes of gallery image g (coordinates in thousandths)
GalleryBoxes(g) ==
    [k \in 1..(1 + (g % 2)) |-> <<k * 10000, g * 10000, k * 10000 + 4000, g * 10000 + 9000>>]

\* the ground-truth box of query image q: one person
QueryBoxes(q) == << <<q * 20000, 5000, q * 20000 + 3000, 12000>> >>

Ones(n) == [k \in 1..n |-> ScoreOne]

\* the batch a loader yields: (images, targets), on the cpu
gallery_loader(k, bs) ==
    LET first == (k - 1) * bs + 1
        last == IF k * bs < NumGallery THEN k * bs ELSE NumGallery
    IN  [images |-> [j \in 1..(last - first + 1) |-> [id |-> first + j - 1, device |-> "cpu"]],
         targets |-> [j \in 1..(last - first + 1) |->
                        [boxes |-> GalleryBoxes(first + j - 1),
                         labels |-> Ones(Len(GalleryBoxes(first + j - 1))),
                         device |-> "cpu"]]]

query_loader(k, bs) ==
    LET first == (k - 1) * bs + 1
        last == IF k * bs < NumQuery THEN k * bs ELSE NumQuery
    IN  [images |-> [j \in 1..(last - first + 1) |-> [id |-> first + j - 1, device |-> "cpu"]],
         targets |-> [j \in 1..(last - first + 1) |->
                        [boxes |-> QueryBoxes(first + j - 1),
                         labels |-> Ones(1),
                         device |-> "cpu"]]]

\* len(loader) for a dataset of n images
NumBatches(n, bs) == (n + bs - 1) \div bs

\* to_device(images, targets, device)
to_device(batch, device) ==
    [images |-> [j \in DOMAIN batch.images |-> [batch.images[j] EXCEPT !.device = device]],
     targets |-> [j \in DOMAIN batch.targets |-> [batch.targets[j] EXCEPT !.device = device]]]

\* one row of an embedding tensor
Emb(m, pass, id, k) == <<m, pass, id, k>>

\* model(images) in eval mode: the detections of each image
Detect(m, images) ==
    [j \in DOMAIN images |->
        LET gt == GalleryBoxes(images[j].id)
        IN  [boxes |-> [k \in DOMAIN gt |-> [c \in 1..4 |-> gt[k][c] + 100 * m]],
             embeddings |-> [k \in DOMAIN gt |-> Emb(m, "det", images[j].id, k)],
             labels |-> Ones(Len(gt)),
             scores |-> [k \in DOMAIN gt |-> 900 - 10 * m]]]

\* model(images, targets) in eval mode: one embedding tensor per image, a row per box
BoxEmbeddings(m, pass, images, tg) ==
    [j \in DOMAIN images |->
        [k \in DOMAIN tg[j].boxes |-> Emb(m, pass, images[j].id, k)]]

\* model(images, targets, query_img_as_gallery=True): the query person first
\* (its box off by err), then the people around
QueryDetect(m, images, tg, err) ==
    [j \in DOMAIN images |->
        [boxes |-> << [tg[j].boxes[1] EXCEPT ![1] = @ - err],
                      <<1000, 1000, 2000 + 100 * m, 3000>> >>,
         embeddings |-> <<Emb(m, "query", images[j].id, 1), Emb(m, "query", images[j].id, 2)>>,
         labels |-> Ones(2),
         scores |-> <<990, 700 - 10 * m>>]]

\* what the model does to the targets it is given: the boxes become those of the
\* resized image
ModelModifies(tg) ==
    [j \in DOMAIN tg |->
        [tg[j] EXCEPT !.boxes = [k \in DOMAIN @ |-> [c \in 1..4 |-> 2 * @[k][c]]]]]

RECURSIVE Cat(_)
\* torch.cat of a list of tensors
Cat(list) == IF list = <<>> THEN <<>> ELSE Head(list) \o Cat(Tail(list))

\* torch.cat([output["boxes"], output["scores"].unsqueeze(1)], dim=1)
BoxWScores(output) ==
    [k \in DOMAIN output.boxes |-> Append(output.boxes[k], output.scores[k])]

\* (a - b).sum()
BoxDiffSum(a, b) == (a[1] - b[1]) + (a[2] - b[2]) + (a[3] - b[3]) + (a[4] - b[4])

EmptyDict == [gallery_dets |-> <<>>, gallery_feats |-> <<>>, query_dets |-> <<>>,
              query_feats |-> <<>>, query_box_feats |-> <<>>]

NoFile == [exists |-> FALSE, data |-> EmptyDict]

EvalInit ==
    /\ pc_eval = "idle"
    /\ use_gt = FALSE /\ use_cache = FALSE /\ use_cbgm = FALSE
    /\ model = 1
    /\ batch_size = 1
    /\ dataset_name = "CUHK-SYSU"
    /\ gallery_dets = <<>> /\ gallery_feats = <<>>
    /\ query_dets = <<>> /\ query_feats = <<>> /\ query_box_feats = <<>>
    /\ targets = <<>> /\ outputs = <<>> /\ embeddings = <<>>
    /\ gt_box = <<>>
    /\ gi = 0 /\ qi = 0
    /\ cache_file = NoFile
    /\ det_calls = <<>> /\ search_calls = <<>>
    /\ ret = "none" /\ returned = "none"
    /\ etrace = <<>>
    /\ runs = 0
    /\ gallery_src = "none" /\ cache_src = "none"
    /\ cache_at_start = NoFile
    /\ last_completed = NoFile

Init == TrainInit /\ EvalInit

SpecTrain == Init /\ [][TrainNext]_vars


(***************************************************************************)
(* Reading the trace of train_one_epoch.                                   *)
(***************************************************************************)
\* how many times the call `name` was made while batch b was the current one
Count(name, b) == Cardinality({k \in 1..Len(trace) : trace[k] = Ev(name, b)})

\* how many times the call `name` was made in the epoch
CountAll(name) == Cardinality({k \in 1..Len(trace) : trace[k].ev = name})

\* the place of the first call `name` of batch b in the trace, 0 when there is none
Pos(name, b) ==
    IF Count(name, b) = 0 THEN 0
    ELSE CHOOSE k \in 1..Len(trace) :
            /\ trace[k] = Ev(name, b)
            /\ \A j \in 1..(k - 1) : trace[j] # Ev(name, b)

\* the calls of batch b, in order
Names(b) ==
    LET s == SelectSeq(trace, LAMBDA e : e.b = b)
    IN  [k \in 1..Len(s) |-> s[k].ev]

Only(seq, S) == SelectSeq(seq, LAMBDA x : x \in S)

IsPrefix(s, t) == Len(s) <= Len(t) /\ s = SubSeq(t, 1, Len(s))

\* the batches the loader has yielded so far
Yielded == 0..i

\* batch b went through the finiteness check
Checked(b) == Count("isfinite", b) >= 1

\* batch b reached the end of the loop body
Completed(b) == Count("metric_update_lr", b) >= 1 /\ (b < i \/ pc_train \in {"tfboard", "loop", "done"})

\* the loop body of batch b is over, by completion or by the exit
Ended(b) == b \in Yielded /\ (b < i \/ pc_train \in {"loop", "done", "exited"})

\* the calls that follow the finiteness check in the loop body
AfterCheck == {"backward", "unscale_", "clip_grad_norm_", "scaler_step", "scaler_update",
               "warmup_step", "metric_update_loss", "metric_update_lr", "add_scalars"}

\* C1: a batch whose reduced total loss is not finite is logged to os.txt and
\* the process exits with status 1 inside that batch: no backward pass,
\* clipping, scaler.step, scaler.update, warm-up step, metric logger update or
\* tfboard write is made for it, nothing runs after it, and it is not retried.
C1_NonFiniteLossExits ==
    /\ (i >= 0 /\ Checked(i) /\ ~(loss_value.kind = "fin")) =>
          /\ pc_train = "exited"
          /\ exit_status = 1
          /\ Len(os_txt) >= 2
          /\ SubSeq(os_txt, Len(os_txt) - 1, Len(os_txt)) = <<"Loss is", "loss_dict_reduced">>
          /\ trace[Len(trace)] = Ev("sys_exit", i)
          /\ Pos("isfinite", i) < Pos("write_text", i)
          /\ \A name \in AfterCheck : Count(name, i) = 0
          /\ Count("forward", i) = 1
          /\ \A k \in 1..Len(trace) : trace[k].b <= i
    /\ pc_train = "exited" =>
          /\ ~(loss_value.kind = "fin")
          /\ ~ENABLED TrainNext
    /\ exit_status = 1 <=> pc_train = "exited"

\* the second batch of an epoch diverges with a NaN, after a first batch that completed
C1_Witness ==
    /\ pc_train = "exited"
    /\ i = 1
    /\ loss_value = NaN
    /\ metric_logger.loss = 1
    /\ Len(data_loader) > 1

\* the steps claim C2 lists, for a batch with a finite reduced loss
CoreSteps(clip) ==
    <<"to_device", "zero_grad", "forward", "reduce_dict", "isfinite", "backward">>
    \o (IF clip THEN <<"unscale_", "clip_grad_norm_">> ELSE <<>>)
    \o <<"scaler_step", "scaler_update", "metric_update_loss", "metric_update_lr">>

CoreNames == {"to_device", "zero_grad", "forward", "reduce_dict", "isfinite", "backward",
              "unscale_", "clip_grad_norm_", "scaler_step", "scaler_update",
              "metric_update_loss", "metric_update_lr"}

\* C2: every batch with a finite reduced loss goes through transfer, zero_grad,
\* forward, reduction and check, backward, optional clipping, scaler.step,
\* scaler.update and the metric logger update, once each and in this order; no
\* step of a batch starts before the metric logger update of the batch before;
\* an epoch that ends without divergence made as many optimizer steps as the
\* loader yielded batches.
C2_BatchStepsInOrder ==
    /\ \A b \in Yielded :
          /\ IsPrefix(Only(Names(b), CoreNames), CoreSteps(cfg.CLIP_GRADIENTS > 0))
          /\ b < i => Only(Names(b), CoreNames) = CoreSteps(cfg.CLIP_GRADIENTS > 0)
          /\ (b = i /\ pc_train \in {"tfboard", "loop", "done"}) =>
                Only(Names(b), CoreNames) = CoreSteps(cfg.CLIP_GRADIENTS > 0)
    /\ \A k \in 1..(Len(trace) - 1) : trace[k].b <= trace[k + 1].b
    /\ \A b \in Yielded : b < i =>
          /\ Pos("metric_update_lr", b) > 0
          /\ \A k \in 1..Len(trace) :
                trace[k].b > b => Pos("metric_update_lr", b) < k
    /\ pc_train = "done" =>
          /\ CountAll("scaler_step") = Len(data_loader)
          /\ i + 1 = Len(data_loader)
          /\ metric_logger = [loss |-> Len(data_loader), lr |-> Len(data_loader)]

\* an epoch of two batches, with clipping, ended without divergence
C2_Witness ==
    /\ pc_train = "done"
    /\ Len(data_loader) = 2
    /\ cfg.CLIP_GRADIENTS > 0
    /\ CountAll("scaler_step") = 2

C7_ClipIffPositive_AsStated ==
    \A b \in Yielded : Ended(b) =>
        /\ Count("clip_grad_norm_", b) >= 1 <=> cfg.CLIP_GRADIENTS > 0
        /\ cfg.CLIP_GRADIENTS <= 0 => Count("scaler_step", b) = 1

\* C7, amended: for a batch whose reduced loss is finite, clipping occurs if and
\* only if CLIP_GRADIENTS > 0; then unscale_ precedes clip_grad_norm_, both after
\* the backward pass and before scaler.step of the batch, once each; with
\* CLIP_GRADIENTS <= 0 neither is called and scaler.step is still called. A
\* batch whose reduced loss is not finite is neither clipped nor stepped.
C7_ClipIffPositive ==
    \A b \in Yielded :
        /\ Count("unscale_", b) <= 1
        /\ Count("clip_grad_norm_", b) <= 1
        /\ Completed(b) =>
              /\ Count("clip_grad_norm_", b) = 1 <=> cfg.CLIP_GRADIENTS > 0
              /\ Count("unscale_", b) = 1 <=> cfg.CLIP_GRADIENTS > 0
              /\ Count("scaler_step", b) = 1
        /\ Count("scaler_step", b) >= 1 =>
              (Count("clip_grad_norm_", b) = 1 <=> cfg.CLIP_GRADIENTS > 0)
        /\ Count("clip_grad_norm_", b) = 1 =>
              /\ cfg.CLIP_GRADIENTS > 0
              /\ Pos("backward", b) > 0
              /\ Pos("backward", b) < Pos("unscale_", b)
              /\ Pos("unscale_", b) < Pos("clip_grad_norm_", b)
              /\ Pos("scaler_step", b) = 0 \/ Pos("clip_grad_norm_", b) < Pos("scaler_step", b)
        /\ cfg.CLIP_GRADIENTS <= 0 =>
              /\ Count("unscale_", b) = 0
              /\ Count("clip_grad_norm_", b) = 0
        /\ (Ended(b) /\ ~Completed(b)) =>
              /\ Count("clip_grad_norm_", b) = 0
              /\ Count("scaler_step", b) = 0

\* both cases of the amended claim happened: a clipped batch, then (CLIP > 0
\* still) a batch that exited unclipped
C7_Witness ==
    /\ cfg.CLIP_GRADIENTS > 0
    /\ i = 1
    /\ Count("clip_grad_norm_", 0) = 1
    /\ Count("scaler_step", 0) = 1
    /\ pc_train = "exited"

\* an unclipped batch (CLIP_GRADIENTS = 0) that was still stepped
C7_WitnessNoClip ==
    /\ cfg.CLIP_GRADIENTS = 0
    /\ pc_train = "done"
    /\ Count("scaler_step", 0) = 1


(***************************************************************************)
(* The steps of evaluate_performance.                                      *)
(***************************************************************************)
history_vars == <<gallery_src, cache_src, cache_at_start, last_completed>>

\* the call: the arguments are bound, the locals are fresh, model.eval()
EvalStart ==
    /\ pc_eval \in {"idle", "done", "aborted"}
    /\ runs < MaxRuns
    /\ \E g \in BOOLEAN, c \in BOOLEAN, b \in BOOLEAN, m \in Models,
          bs \in BatchSizes, name \in DatasetNames :
        /\ use_gt' = g
        /\ use_cache' = c
        /\ use_cbgm' = b
        /\ model' = m
        /\ batch_size' = bs
        /\ dataset_name' = name
        /\ pc_eval' = IF c THEN "load" ELSE "gallery"
    /\ gallery_dets' = <<>> /\ gallery_feats' = <<>>
    /\ query_dets' = <<>> /\ query_feats' = <<>> /\ query_box_feats' = <<>>
    /\ targets' = <<>> /\ outputs' = <<>> /\ embeddings' = <<>>
    /\ gt_box' = <<>>
    /\ gi' = 0 /\ qi' = 0
    /\ det_calls' = <<>> /\ search_calls' = <<>>
    /\ ret' = "none" /\ returned' = "none"
    /\ etrace' = <<"model_eval">>
    /\ runs' = runs + 1
    /\ gallery_src' = "none"
    /\ cache_at_start' = cache_file
    /\ UNCHANGED <<cache_file, cache_src, last_completed>>

LoadedDict_FeatsSwapped(file) ==
    [file.data EXCEPT !.query_feats = file.data.query_box_feats,
                      !.query_box_feats = file.data.query_feats]

\* the five locals read from eval_cache = torch.load(...)
LoadedDict(file) ==
    [gallery_dets |-> file.data["gallery_dets"],
     gallery_feats |-> file.data["gallery_feats"],
     query_dets |-> file.data["query_dets"],
     query_feats |-> file.data["query_feats"],
     query_box_feats |-> file.data["query_box_feats"]]

\* use_cache: the artifacts are those of the cache file (torch.load raises when
\* there is none)
LoadCache ==
    /\ pc_eval = "load"
    /\ IF cache_file.exists
       THEN /\ gallery_dets' = LoadedDict(cache_file).gallery_dets
            /\ gallery_feats' = LoadedDict(cache_file).gallery_feats
            /\ query_dets' = LoadedDict(cache_file).query_dets
            /\ query_feats' = LoadedDict(cache_file).query_feats
            /\ query_box_feats' = LoadedDict(cache_file).query_box_feats
            /\ gallery_src' = cache_src
            /\ etrace' = Append(etrace, "torch_load")
            /\ pc_eval' = "detection"
       ELSE /\ UNCHANGED <<gallery_dets, gallery_feats, query_dets, query_feats,
                           query_box_feats, gallery_src>>
            /\ etrace' = etrace \o <<"torch_load", "FileNotFoundError">>
            /\ pc_eval' = "aborted"
    /\ UNCHANGED <<use_gt, use_cache, use_cbgm, model, batch_size, dataset_name,
                   targets, outputs, embeddings, gt_box, gi, qi, cache_file,
                   det_calls, search_calls, ret, returned, runs,
                   cache_src, cache_at_start, last_completed>>

\* use_gt: the ground-truth boxes of targets[0] as the one detection output
GtOutputs(boxes, embs) ==
    << [boxes |-> boxes,
        embeddings |-> Cat(embs),
        labels |-> Ones(Len(boxes)),
        scores |-> Ones(Len(boxes))] >>

\* one batch of the gallery loader
GalleryPass ==
    /\ pc_eval = "gallery"
    /\ gi < NumBatches(NumGallery, batch_size)
    /\ LET batch == to_device(gallery_loader(gi + 1, batch_size), "cuda")
           embs == BoxEmbeddings(model, "gt", batch.images, batch.targets)
           outs == IF ~use_gt THEN Detect(model, batch.images)
                   ELSE GtOutputs(batch.targets[1].boxes, embs)
       IN  /\ targets' = IF ~use_gt THEN batch.targets ELSE ModelModifies(batch.targets)
           /\ embeddings' = IF ~use_gt THEN embeddings ELSE embs
           /\ outputs' = outs
           /\ gallery_dets' = gallery_dets \o [k \in DOMAIN outs |-> BoxWScores(outs[k])]
           /\ gallery_feats' = gallery_feats \o [k \in DOMAIN outs |-> outs[k].embeddings]
    /\ gallery_src' = IF use_gt THEN "gt" ELSE "detector"
    /\ gi' = gi + 1
    /\ etrace' = Append(etrace, "gallery_batch")
    /\ UNCHANGED <<pc_eval, use_gt, use_cache, use_cbgm, model, batch_size, dataset_name,
                   query_dets, query_feats, query_box_feats, gt_box, qi, cache_file,
                   det_calls, search_calls, ret, returned, runs,
                   cache_src, cache_at_start, last_completed>>

\* a loop over a loader ends
LoopEnd(from, exhausted, to) ==
    /\ pc_eval = from
    /\ exhausted
    /\ pc_eval' = to
    /\ gi' = gi
    /\ qi' = 0
    /\ UNCHANGED <<use_gt, use_cache, use_cbgm, model, batch_size, dataset_name,
                   gallery_dets, gallery_feats, query_dets, query_feats, query_box_feats,
                   targets, outputs, embeddings, gt_box, cache_file, det_calls,
                   search_calls, ret, returned, etrace, runs, history_vars>>

GalleryEnd == LoopEnd("gallery", gi >= NumBatches(NumGallery, batch_size), "query")

TargetsAfterQueryCall_NoCopy(tg) == ModelModifies(tg)

\* the caller's targets after model(images, deepcopy(targets), ...): the model
\* modified the copy
TargetsAfterQueryCall(tg) == tg

\* assert (gt_box - outputs[0]["boxes"][0]).sum() <= 0.001
ConsistencyCheck(gt, first) == BoxDiffSum(gt, first) <= Tolerance

\* one batch of the query loader, the query image regarded as a gallery image
QueryPass ==
    /\ pc_eval = "query"
    /\ qi < NumBatches(NumQuery, batch_size)
    /\ \E err \in Errs :
        LET batch == to_device(query_loader(qi + 1, batch_size), "cuda")
            outs == QueryDetect(model, batch.images, batch.targets, err)
            after == TargetsAfterQueryCall(batch.targets)
            box == after[1].boxes[1]
        IN  /\ targets' = after
            /\ outputs' = outs
            /\ gt_box' = box
            /\ IF ConsistencyCheck(box, outs[1].boxes[1])
               THEN /\ query_dets' = query_dets \o [k \in DOMAIN outs |-> BoxWScores(outs[k])]
                    /\ query_feats' = query_feats \o [k \in DOMAIN outs |-> outs[k].embeddings]
                    /\ qi' = qi + 1
                    /\ etrace' = Append(etrace, "query_batch")
                    /\ pc_eval' = pc_eval
               ELSE /\ UNCHANGED <<query_dets, query_feats, qi>>
                    /\ etrace' = etrace \o <<"query_batch", "AssertionError">>
                    /\ pc_eval' = "aborted"
    /\ UNCHANGED <<use_gt, use_cache, use_cbgm, model, batch_size, dataset_name,
                   gallery_dets, gallery_feats, query_box_feats, embeddings, gi,
                   cache_file, det_calls, search_calls, ret, returned, runs, history_vars>>

QueryEnd == LoopEnd("query", qi >= NumBatches(NumQuery, batch_size), "query_box")

\* assert len(embeddings) == 1
BatchOfOne(embs) == Len(embs) = 1

\* one batch of the query loader, for the features of the query boxes
QueryBoxPass ==
    /\ pc_eval = "query_box"
    /\ qi < NumBatches(NumQuery, batch_size)
    /\ LET batch == to_device(query_loader(qi + 1, batch_size), "cuda")
           embs == BoxEmbeddings(model, "query_box", batch.images, batch.targets)
       IN  /\ targets' = ModelModifies(batch.targets)
           /\ embeddings' = embs
           /\ IF BatchOfOne(embs)
              THEN /\ query_box_feats' = Append(query_box_feats, embs[1])
                   /\ qi' = qi + 1
                   /\ etrace' = Append(etrace, "query_box_batch")
                   /\ pc_eval' = pc_eval
              ELSE /\ UNCHANGED <<query_box_feats, qi>>
                   /\ etrace' = etrace \o <<"query_box_batch", "AssertionError">>
                   /\ pc_eval' = "aborted"
    /\ UNCHANGED <<use_gt, use_cache, use_cbgm, model, batch_size, dataset_name,
                   gallery_dets, gallery_feats, query_dets, query_feats, outputs, gt_box,
                   gi, cache_file, det_calls, search_calls, ret, returned, runs,
                   history_vars>>

QueryBoxEnd_SkipsSave ==
    LoopEnd("query_box", qi >= NumBatches(NumQuery, batch_size), "detection")

QueryBoxEnd == LoopEnd("query_box", qi >= NumBatches(NumQuery, batch_size), "save")

\* save_dict
SaveDict ==
    [gallery_dets |-> gallery_dets,
     gallery_feats |-> gallery_feats,
     query_dets |-> query_dets,
     query_feats |-> query_feats,
     query_box_feats |-> query_box_feats]

\* mkdir(cache_dir); torch.save(save_dict, .../eval_cache.pth)
SaveCache ==
    /\ pc_eval = "save"
    /\ cache_file' = [exists |-> TRUE, data |-> SaveDict]
    /\ cache_src' = gallery_src
    /\ etrace' = etrace \o <<"mkdir", "torch_save">>
    /\ pc_eval' = "detection"
    /\ UNCHANGED <<use_gt, use_cache, use_cbgm, model, batch_size, dataset_name,
                   gallery_dets, gallery_feats, query_dets, query_feats, query_box_feats,
                   targets, outputs, embeddings, gt_box, gi, qi, det_calls,
                   search_calls, ret, returned, runs,
                   gallery_src, cache_at_start, last_completed>>

DetectionWanted_Always(g) == TRUE

\* "if not use_gt"
DetectionWanted(g) == ~g

\* eval_detection(gallery_loader.dataset, gallery_dets, det_thresh=0.01, ...)
EvalDetection ==
    /\ pc_eval = "detection"
    /\ IF DetectionWanted(use_gt)
       THEN /\ det_calls' = Append(det_calls, [gallery_dets |-> gallery_dets,
                                               det_thresh |-> DetThresh,
                                               src |-> gallery_src])
            /\ etrace' = Append(etrace, "eval_detection")
       ELSE UNCHANGED <<det_calls, etrace>>
    /\ pc_eval' = "search"
    /\ UNCHANGED <<use_gt, use_cache, use_cbgm, model, batch_size, dataset_name,
                   gallery_dets, gallery_feats, query_dets, query_feats, query_box_feats,
                   targets, outputs, embeddings, gt_box, gi, qi, cache_file,
                   search_calls, ret, returned, runs, history_vars>>

eval_search_func_Swapped(name) ==
    IF name = "CUHK-SYSU" THEN "eval_search_prw" ELSE "eval_search_cuhk"

\* eval_search_cuhk if gallery_loader.dataset.name == "CUHK-SYSU" else eval_search_prw
eval_search_func(name) ==
    IF name = "CUHK-SYSU" THEN "eval_search_cuhk" ELSE "eval_search_prw"

\* ret = eval_search_func(..., cbgm=use_cbgm, outsys_dir=outsys_dir)
EvalSearch ==
    /\ pc_eval = "search"
    /\ \E r \in Rets :
        /\ search_calls' = Append(search_calls,
                [func |-> eval_search_func(dataset_name),
                 gallery_dets |-> gallery_dets,
                 gallery_feats |-> gallery_feats,
                 query_box_feats |-> query_box_feats,
                 query_dets |-> query_dets,
                 query_feats |-> query_feats,
                 cbgm |-> use_cbgm,
                 result |-> r])
        /\ ret' = r
    /\ etrace' = Append(etrace, eval_search_func(dataset_name))
    /\ pc_eval' = "return"
    /\ UNCHANGED <<use_gt, use_cache, use_cbgm, model, batch_size, dataset_name,
                   gallery_dets, gallery_feats, query_dets, query_feats, query_box_feats,
                   targets, outputs, embeddings, gt_box, gi, qi, cache_file,
                   det_calls, returned, runs, history_vars>>

\* return ret
Return ==
    /\ pc_eval = "return"
    /\ returned' = ret
    /\ pc_eval' = "done"
    /\ last_completed' = IF use_cache THEN last_completed
                         ELSE [exists |-> TRUE,
                               data |-> [gallery_dets |-> gallery_dets,
                                         gallery_feats |-> gallery_feats,
                                         query_dets |-> query_dets,
                                         query_feats |-> query_feats,
                                         query_box_feats |-> query_box_feats]]
    /\ UNCHANGED <<use_gt, use_cache, use_cbgm, model, batch_size, dataset_name,
                   gallery_dets, gallery_feats, query_dets, query_feats, query_box_feats,
                   targets, outputs, embeddings, gt_box, gi, qi, cache_file,
                   det_calls, search_calls, ret, etrace, runs,
                   gallery_src, cache_src, cache_at_start>>

EvalNext ==
    \/ (EvalStart /\ UNCHANGED train_vars)
    \/ (LoadCache /\ UNCHANGED train_vars)
    \/ (GalleryPass /\ UNCHANGED train_vars)
    \/ (GalleryEnd /\ UNCHANGED train_vars)
    \/ (QueryPass /\ UNCHANGED train_vars)
    \/ (QueryEnd /\ UNCHANGED train_vars)
    \/ (QueryBoxPass /\ UNCHANGED train_vars)
    \/ (QueryBoxEnd /\ UNCHANGED train_vars)
    \/ (SaveCache /\ UNCHANGED train_vars)
    \/ (EvalDetection /\ UNCHANGED train_vars)
    \/ (EvalSearch /\ UNCHANGED train_vars)
    \/ (Return /\ UNCHANGED train_vars)

SpecEval == Init /\ [][EvalNext]_vars

\* one process either trains an epoch or evaluates
Next ==
    \/ (pc_eval = "idle" /\ runs = 0 /\ TrainNext)
    \/ (pc_train = "idle" /\ EvalNext)

Spec == Init /\ [][Next]_vars


(***************************************************************************)
(* Reading a run of evaluate_performance.                                  *)
(***************************************************************************)
Artifacts == [gallery_dets |-> gallery_dets, gallery_feats |-> gallery_feats,
              query_dets |-> query_dets, query_feats |-> query_feats,
              query_box_feats |-> query_box_feats]

ArtifactKeys == {"gallery_dets", "gallery_feats", "query_dets", "query_feats",
                 "query_box_feats"}

\* how many times the call `name` was made in this run
Calls(name) == Cardinality({k \in 1..Len(etrace) : etrace[k] = name})

InferenceCalls == {"gallery_batch", "query_batch", "query_box_batch"}

ScoringCalls == {"eval_detection", "eval_search_cuhk", "eval_search_prw"}

\* the run is past the artifacts: it is scoring or has returned
AtScoring == pc_eval \in {"detection", "search", "return", "done"}

Between == pc_eval \in {"idle", "done", "aborted"}

\* C3: after a completed run with use_cache=False, a following run with
\* use_cache=True passes to the scoring functions the five artifacts that run
\* computed, runs no inference and leaves the cache file as it is; the cache
\* file holds exactly the five keys, as written by the most recent completed
\* use_cache=False run.
C3_CacheReuse ==
    /\ (use_cache /\ pc_eval # "idle") =>
          /\ cache_file = cache_at_start
          /\ \A name \in InferenceCalls \cup {"mkdir", "torch_save"} : Calls(name) = 0
          /\ AtScoring =>
                /\ last_completed.exists
                /\ Artifacts = last_completed.data
          /\ \A k \in 1..Len(det_calls) :
                det_calls[k].gallery_dets = last_completed.data.gallery_dets
          /\ \A k \in 1..Len(search_calls) :
                /\ search_calls[k].gallery_dets = last_completed.data.gallery_dets
                /\ search_calls[k].gallery_feats = last_completed.data.gallery_feats
                /\ search_calls[k].query_dets = last_completed.data.query_dets
                /\ search_calls[k].query_feats = last_completed.data.query_feats
                /\ search_calls[k].query_box_feats = last_completed.data.query_box_feats
    /\ ((Between \/ use_cache) /\ cache_file.exists) =>
          /\ DOMAIN cache_file.data = ArtifactKeys
          /\ cache_file = last_completed
    /\ (Between \/ use_cache) => (cache_file.exists <=> last_completed.exists)

\* a run with use_cache=True returned after scoring artifacts that a run with
\* other weights had computed
C3_Witness ==
    /\ pc_eval = "done"
    /\ use_cache
    /\ runs = 2
    /\ Len(search_calls) = 1
    /\ search_calls[1].query_box_feats = last_completed.data.query_box_feats
    /\ Len(search_calls[1].query_box_feats) = NumQuery
    /\ search_calls[1].query_box_feats[1][1][1] # model

\* the calls of a complete run with use_cache=False, in order
FullOrder ==
    <<"model_eval">>
    \o [k \in 1..NumBatches(NumGallery, batch_size) |-> "gallery_batch"]
    \o [k \in 1..NumBatches(NumQuery, batch_size) |-> "query_batch"]
    \o [k \in 1..NumBatches(NumQuery, batch_size) |-> "query_box_batch"]
    \o <<"mkdir", "torch_save">>
    \o (IF use_gt THEN <<>> ELSE <<"eval_detection">>)
    \o (IF dataset_name = "CUHK-SYSU" THEN <<"eval_search_cuhk">> ELSE <<"eval_search_prw">>)

\* the calls of this run, without the error that ended it
CallsMade == Only(etrace, InferenceCalls \cup ScoringCalls \cup {"model_eval", "mkdir", "torch_save"})

\* C4: a run with use_cache=False makes the gallery pass, then the
\* query-as-gallery pass, then the query-box pass, then the cache write, then
\* the scoring; no scoring function is called before the three passes are over
\* and the artifacts are saved.
C4_EvalOrder ==
    (~use_cache /\ pc_eval # "idle") =>
        /\ IsPrefix(CallsMade, FullOrder)
        /\ pc_eval = "done" => CallsMade = FullOrder
        /\ (Len(det_calls) + Len(search_calls) > 0
            \/ \E name \in ScoringCalls : Calls(name) > 0) =>
              /\ Calls("gallery_batch") = NumBatches(NumGallery, batch_size)
              /\ Calls("query_batch") = NumBatches(NumQuery, batch_size)
              /\ Calls("query_box_batch") = NumBatches(NumQuery, batch_size)
              /\ Calls("torch_save") = 1
              /\ cache_file = [exists |-> TRUE, data |-> Artifacts]
              /\ Len(gallery_dets) > 0 /\ Len(query_dets) > 0
              /\ Len(query_box_feats) = NumBatches(NumQuery, batch_size)

\* a run with use_cache=False and use_gt=False went through every step
C4_Witness ==
    /\ pc_eval = "done"
    /\ ~use_cache /\ ~use_gt
    /\ Len(det_calls) = 1 /\ Len(search_calls) = 1
    /\ Calls("gallery_batch") = NumGallery
    /\ Calls("query_box_batch") = NumQuery

\* the entry gallery_dets gets for batch k of the gallery loader under use_gt:
\* the ground-truth boxes of the batch's first image, each with score 1
GtEntry(k) ==
    LET gt == GalleryBoxes((k - 1) * batch_size + 1)
    IN  [j \in DOMAIN gt |-> Append(gt[j], 1000)]

\* the rows model(images, targets) returns for batch k of the gallery loader
GtFeats(k) ==
    LET batch == gallery_loader(k, batch_size)
    IN  Cat(BoxEmbeddings(model, "gt", batch.images, batch.targets))

\* the part of C5 on the gallery entries of a use_gt run
C5_GtEntries ==
    (use_gt /\ ~use_cache /\ pc_eval # "idle") =>
        /\ Len(gallery_dets) = gi
        /\ Len(gallery_feats) = gi
        /\ \A k \in 1..Len(gallery_dets) :
              /\ gallery_dets[k] = GtEntry(k)
              /\ gallery_feats[k] = GtFeats(k)
        /\ (gi > 0 /\ Calls("query_batch") = 0) =>
              /\ Len(outputs) = 1
              /\ \A j \in DOMAIN outputs[1].labels : outputs[1].labels[j] = 1000
              /\ \A j \in DOMAIN outputs[1].scores : outputs[1].scores[j] = 1000
              /\ Len(outputs[1].scores) = Len(outputs[1].boxes)

\* C5 as stated: in every run with use_gt=True eval_detection is never called,
\* in every run with use_gt=False it is called exactly once, before the search
\* evaluation function (and the gallery entries of a use_gt run are the
\* ground-truth boxes with score 1).
C5_UseGtContract_AsStated ==
    /\ C5_GtEntries
    /\ pc_eval \in {"done", "aborted"} =>
          /\ use_gt => Len(det_calls) = 0
          /\ ~use_gt => Len(det_calls) = 1

\* C5, amended: in a run with use_gt=True and use_cache=False every gallery
\* entry consists of the ground-truth boxes (of the first image of its batch)
\* each with score 1 and label 1, with the embeddings of model(images, targets);
\* in every run with use_gt=True eval_detection is never called; in every run
\* with use_gt=False that reaches the scoring, eval_detection is called exactly
\* once, before the search evaluation function; a run that aborts before the
\* scoring calls neither.
C5_UseGtContract ==
    /\ C5_GtEntries
    /\ (use_gt /\ pc_eval # "idle") =>
          /\ det_calls = <<>>
          /\ Calls("eval_detection") = 0
    /\ (~use_gt /\ pc_eval # "idle") =>
          /\ Len(det_calls) <= 1
          /\ Calls("eval_detection") = Len(det_calls)
          /\ pc_eval \in {"search", "return", "done"} => Len(det_calls) = 1
          /\ Len(search_calls) > 0 =>
                /\ Len(det_calls) = 1
                /\ \E a, b \in 1..Len(etrace) :
                      /\ a < b
                      /\ etrace[a] = "eval_detection"
                      /\ etrace[b] \in {"eval_search_cuhk", "eval_search_prw"}
    /\ pc_eval = "aborted" => (det_calls = <<>> /\ search_calls = <<>>)

\* a use_gt run over the whole gallery that returned without eval_detection
C5_Witness ==
    /\ pc_eval = "done"
    /\ use_gt /\ ~use_cache
    /\ Len(gallery_dets) = NumGallery
    /\ Len(gallery_dets[1]) = 2
    /\ det_calls = <<>>
    /\ Len(search_calls) = 1

\* a run with use_gt=False that called eval_detection once, before the search function
C5_WitnessDetection ==
    /\ pc_eval = "done" /\ ~use_gt /\ Len(det_calls) = 1 /\ Len(search_calls) = 1

\* C8: every run that reaches the scoring calls exactly one search evaluation
\* function, once: eval_search_cuhk if the dataset name is "CUHK-SYSU",
\* eval_search_prw for every other name, whatever use_gt, use_cache and use_cbgm
\* are; use_cbgm is forwarded as cbgm and the function's value is returned.
C8_Dispatch ==
    /\ Len(search_calls) <= 1
    /\ Calls("eval_search_cuhk") + Calls("eval_search_prw") = Len(search_calls)
    /\ pc_eval \in {"return", "done"} <=> Len(search_calls) = 1
    /\ \A k \in 1..Len(search_calls) :
          /\ search_calls[k].func = IF dataset_name = "CUHK-SYSU" THEN "eval_search_cuhk"
                                    ELSE "eval_search_prw"
          /\ Calls(search_calls[k].func) = 1
          /\ search_calls[k].cbgm = use_cbgm
          /\ search_calls[k].result = ret
          /\ search_calls[k].gallery_dets = gallery_dets
          /\ search_calls[k].query_box_feats = query_box_feats
    /\ pc_eval = "done" =>
          /\ returned = search_calls[1].result
          /\ returned \in Rets
    /\ pc_eval # "done" => returned = "none"

\* a run on a dataset named neither CUHK-SYSU nor PRW, with CBGM, returned
C8_Witness ==
    /\ pc_eval = "done"
    /\ dataset_name = "cuhk-sysu"
    /\ use_cbgm /\ use_gt /\ use_cache
    /\ search_calls[1].func = "eval_search_prw"
    /\ returned = "ret_b"

\* the first image of the query batch the run handled last in the
\* query-as-gallery pass
LastQueryImage == (Calls("query_batch") - 1) * batch_size + 1

\* C9: in the query-as-gallery pass the model gets a deep copy of the targets,
\* so the box compared is the one the loader gave; a first detected box whose
\* differences from it sum to more than 0.001, or a number of embeddings other
\* than 1 in the query-box pass, aborts the run with an assertion error, and
\* such a run writes no cache file and calls no scoring function (the cache
\* file of an earlier run stays as it was).
C9_ConsistencyChecks ==
    /\ (~use_cache /\ Calls("query_batch") > 0) =>
          /\ gt_box = QueryBoxes(LastQueryImage)[1]
          /\ BoxDiffSum(gt_box, outputs[1].boxes[1]) > 1 =>
                /\ pc_eval = "aborted"
                /\ etrace[Len(etrace)] = "AssertionError"
          /\ (BoxDiffSum(gt_box, outputs[1].boxes[1]) <= 1 /\ Calls("query_box_batch") = 0) =>
                pc_eval # "aborted"
    /\ (~use_cache /\ Calls("query_box_batch") > 0) =>
          (Len(embeddings) # 1 <=> pc_eval = "aborted")
    /\ (~use_cache /\ Calls("query_box_batch") > 0 /\ Len(embeddings) # 1) =>
          etrace[Len(etrace)] = "AssertionError"
    /\ pc_eval = "aborted" =>
          /\ Calls("torch_save") = 0
          /\ \A name \in ScoringCalls : Calls(name) = 0
          /\ det_calls = <<>> /\ search_calls = <<>>
          /\ cache_file = cache_at_start
          /\ returned = "none"

\* the second run aborted on the box of its second query batch, and the cache
\* file of the first run is still there
C9_Witness ==
    /\ pc_eval = "aborted"
    /\ ~use_cache
    /\ runs = 2
    /\ Calls("query_batch") = 2
    /\ BoxDiffSum(gt_box, outputs[1].boxes[1]) = 2
    /\ cache_file.exists
    /\ cache_file = cache_at_start

\* a run aborted in the query-box pass on a batch of two images
C9_WitnessBatch ==
    /\ pc_eval = "aborted"
    /\ Calls("query_box_batch") = 1
    /\ Len(embeddings) = 2

\* C10: whenever eval_detection is called, the gallery detections it gets were
\* computed by the detector, in a run with use_gt=False, never the ground-truth
\* boxes with score 1 of a use_gt=True run: the artifacts loaded under
\* use_cache=True are those of the use_gt setting of the run that loads them.
C10_DetectionOnDetectorOutput ==
    /\ \A k \in 1..Len(det_calls) : det_calls[k].src = "detector"
    /\ (use_cache /\ AtScoring) => (gallery_src = "gt" <=> use_gt)

====
